---- MODULE Spec2Model ----
(***************************************************************************)
(* State-machine model of src/zen_grid_cloud.py: the Streamlit page        *)
(* script main(), the bulk loader load_data() and create_connection().     *)
(* One page run is one execution of main(); st.rerun() restarts it.        *)
(* Warehouse calls (connect, cursor, execute, read_sql, fetchone,          *)
(* cursor.close) either succeed or raise an exception carrying a text.     *)
(***************************************************************************)
EXTENDS Integers, Sequences, FiniteSets, TLC

VARIABLES
    pc,            \* position of the page script
    run,           \* number of the current page run
    clicked,       \* st.button("Refresh Data") returns True in this run
    nextSession,   \* number of session objects created so far
    openSessions,  \* sessions connected and not yet closed
    side_conn,     \* main: conn of the sidebar status check
    load_conn,     \* load_data: conn
    forecast_df,   \* load_data local
    market_df,     \* load_data local
    summary_df,    \* load_data local
    ret,           \* value returned by load_data, unpacked by main
    err,           \* exception in flight in load_data (str(e))
    issued,        \* statements executed on the load session, with outcome
    calls,         \* create_connection calls of this run, per caller
    attempts,      \* connector connect() attempts of this run, per caller
    shown,         \* messages displayed in this run
    failures,      \* warehouse operations that raised in this run
    metrics,       \* total_forecasts, hits, accuracy, misses
    bias_stats,    \* the groupby aggregate
    view,          \* which page state main ended in
    run_log,       \* how each earlier run ended, and its load calls
    probe_order,   \* diagnostic probe: order in which candidates are probed
    accessible,    \* diagnostic probe: tables that exist and are accessible
    table_rows,    \* diagnostic probe: row count of each table
    probe_pos,     \* diagnostic probe: number of probes done
    probe_results  \* diagnostic probe: entries recorded so far

vars == <<pc, run, clicked, nextSession, openSessions, side_conn, load_conn,
          forecast_df, market_df, summary_df, ret, err, issued, calls,
          attempts, shown, failures, metrics, bias_stats, view, run_log,
          probe_order, accessible, table_rows, probe_pos, probe_results>>

probeVars == <<probe_order, accessible, table_rows, probe_pos, probe_results>>

----------------------------------------------------------------------------
(* Bounds *)

MaxRuns == 2
MaxLoadRows == 1
MaxRows == 3
MaxOtherRows == 0
MaxCandidates == 4

----------------------------------------------------------------------------
(* Values *)

(* Optional values: Python None / SQL NULL / NaN is the empty tuple, a    *)
(* present value x is the one-element tuple <<x>>.                        *)
None == <<>>
Some(x) == <<x>>
NoErr == <<>>
NoneTriple == <<None, None, None>>

Callers == {"sidebar", "load"}

(* Exception texts str(e), as sequences of characters. *)
ErrorTexts ==
    { <<"N","o","t"," ","A","u","t","h","o","r","i","z","e","d">>,
      <<"x"," ","N","O","T"," ","A","U","T","H","O","R","I","Z","E","D",".">>,
      <<"u","n","a","u","t","h","o","r","i","z","e","d">> }

Needle == <<"n","o","t"," ","a","u","t","h","o","r","i","z","e","d">>

UpperCase == <<"A","B","C","D","E","F","G","H","I","J","K","L","M",
               "N","O","P","Q","R","S","T","U","V","W","X","Y","Z">>
LowerCase == <<"a","b","c","d","e","f","g","h","i","j","k","l","m",
               "n","o","p","q","r","s","t","u","v","w","x","y","z">>

(* str.lower() on one character *)
lowerChar(c) ==
    IF \E i \in 1..26 : UpperCase[i] = c
    THEN LowerCase[CHOOSE i \in 1..26 : UpperCase[i] = c]
    ELSE c

(* str.lower() *)
lower(s) == [i \in 1..Len(s) |-> lowerChar(s[i])]

(* sub in s *)
contains(sub, s) ==
    \E k \in 0..(Len(s) - Len(sub)) :
        \A i \in 1..Len(sub) : s[k + i] = sub[i]

(* variant: the test without .lower() *)
is_permission_error_case_sensitive(e) == contains(Needle, e)

(* "not authorized" in str(e).lower() *)
is_permission_error(e) == contains(Needle, lower(e))

Msg(kind, where, label, text) ==
    [kind |-> kind, where |-> where, label |-> label, text |-> text]

Failure(op, where, text) == [op |-> op, where |-> where, text |-> text]

Bias == {Some("bullish"), Some("bearish"), None}
Hit == {Some(TRUE), Some(FALSE), None}
ForecastRow == [FORECAST_BIAS : Bias, HIT : Hit]

SeqsUpTo(S, n) == UNION { [1..k -> S] : k \in 0..n }

(* Forecast frames the warehouse returns: in the page runs, and as inputs *)
(* of the metrics computation.                                           *)
LoadFrames == SeqsUpTo(ForecastRow, MaxLoadRows)
Frames == SeqsUpTo(ForecastRow, MaxRows)

(* Market and summary frames, by their number of rows. *)
OtherFrames == 0..MaxOtherRows

Order == <<"USE DATABASE", "USE SCHEMA", "USE WAREHOUSE",
           "SELECT FORECAST_POSTMORTEM", "SELECT DAILY_MARKET_DATA",
           "SELECT FORECAST_SUMMARY">>

----------------------------------------------------------------------------
(* create_connection: one connector connect() call; conn is the value     *)
(* returned: Some(session) or None after displaying the error.            *)

(* variant: a failed connect() is tried a second time *)
create_connection_retry(caller, conn) ==
    /\ calls' = [calls EXCEPT ![caller] = @ + 1]
    /\ \/ /\ conn = Some(nextSession + 1)
          /\ \E n \in 1..2 : attempts' = [attempts EXCEPT ![caller] = @ + n]
          /\ nextSession' = nextSession + 1
          /\ openSessions' = openSessions \cup {nextSession + 1}
          /\ UNCHANGED <<shown, failures>>
       \/ /\ conn = None
          /\ attempts' = [attempts EXCEPT ![caller] = @ + 2]
          /\ \E e \in ErrorTexts :
                /\ shown' = Append(shown, Msg("error", caller, "Connection failed", e))
                /\ failures' = Append(failures, Failure("connect", caller, e))
          /\ UNCHANGED <<nextSession, openSessions>>

create_connection(caller, conn) ==
    /\ calls' = [calls EXCEPT ![caller] = @ + 1]
    /\ attempts' = [attempts EXCEPT ![caller] = @ + 1]
    /\ \/ /\ conn = Some(nextSession + 1)
          /\ nextSession' = nextSession + 1
          /\ openSessions' = openSessions \cup {nextSession + 1}
          /\ UNCHANGED <<shown, failures>>
       \/ /\ conn = None
          /\ \E e \in ErrorTexts :
                /\ shown' = Append(shown, Msg("error", caller, "Connection failed", e))
                /\ failures' = Append(failures, Failure("connect", caller, e))
          /\ UNCHANGED <<nextSession, openSessions>>

(* conn.close() *)
close(conn) == openSessions' = openSessions \ {conn[1]}

ConnValues == {None} \cup {Some(nextSession + 1)}

----------------------------------------------------------------------------
(* main, lines 109-128: the sidebar connection status check *)

SidebarCreateConnection ==
    /\ pc = "sidebar"
    /\ \E conn \in ConnValues :
          /\ create_connection("sidebar", conn)
          /\ side_conn' = conn
    /\ pc' = "sidebar_if"
    /\ UNCHANGED <<run, clicked, load_conn, forecast_df, market_df, summary_df,
                   ret, err, issued, metrics, bias_stats, view>>
    /\ UNCHANGED <<run_log, probeVars>>

SidebarConnected ==
    /\ pc = "sidebar_if"
    /\ side_conn # None
    /\ shown' = Append(shown, Msg("success", "sidebar", "Snowflake Connected", NoErr))
    /\ pc' = "status"
    /\ UNCHANGED <<run, clicked, nextSession, openSessions, side_conn, load_conn,
                   forecast_df, market_df, summary_df, ret, err, issued, calls,
                   attempts, failures, metrics, bias_stats, view>>
    /\ UNCHANGED <<run_log, probeVars>>

SidebarNotConnected ==
    /\ pc = "sidebar_if"
    /\ side_conn = None
    /\ shown' = Append(shown, Msg("error", "sidebar", "Connection Failed", NoErr))
    /\ pc' = "button"
    /\ UNCHANGED <<run, clicked, nextSession, openSessions, side_conn, load_conn,
                   forecast_df, market_df, summary_df, ret, err, issued, calls,
                   attempts, failures, metrics, bias_stats, view>>
    /\ UNCHANGED <<run_log, probeVars>>

(* try: cursor(); execute; fetchone; four st.write; cursor.close()        *)
(* except: pass                                                           *)
(* the bare except binds no exception: a failure carries no text here      *)
StatusOps == <<"cursor", "execute", "fetchone", "cursor.close">>

StatusQuery ==
    /\ pc = "status"
    /\ \/ /\ shown' = Append(shown, Msg("write", "sidebar", "context", NoErr))
          /\ UNCHANGED failures
       \/ \E i \in 1..Len(StatusOps) :
             /\ failures' = Append(failures, Failure("status", "sidebar", NoErr))
             /\ shown' = IF StatusOps[i] = "cursor.close"
                            THEN Append(shown, Msg("write", "sidebar", "context", NoErr))
                            ELSE shown
    /\ pc' = "sidebar_close"
    /\ UNCHANGED <<run, clicked, nextSession, openSessions, side_conn, load_conn,
                   forecast_df, market_df, summary_df, ret, err, issued, calls,
                   attempts, metrics, bias_stats, view>>
    /\ UNCHANGED <<run_log, probeVars>>

(* variant: line 126 missing *)
SidebarNoClose ==
    /\ pc = "sidebar_close"
    /\ pc' = "button"
    /\ UNCHANGED <<run, clicked, nextSession, openSessions, side_conn, load_conn,
                   forecast_df, market_df, summary_df, ret, err, issued, calls,
                   attempts, shown, failures, metrics, bias_stats, view>>
    /\ UNCHANGED <<run_log, probeVars>>

(* conn.close(), line 126, reached from the try block and from except: pass *)
SidebarClose ==
    /\ pc = "sidebar_close"
    /\ close(side_conn)
    /\ pc' = "button"
    /\ UNCHANGED <<run, clicked, nextSession, side_conn, load_conn,
                   forecast_df, market_df, summary_df, ret, err, issued, calls,
                   attempts, shown, failures, metrics, bias_stats, view>>
    /\ UNCHANGED <<run_log, probeVars>>

----------------------------------------------------------------------------
(* main, lines 130-136: the refresh button *)

StartRun(c, how) ==
    /\ run' = run + 1
    /\ run_log' = Append(run_log, [how |-> how, clicked |-> clicked,
                                   load_calls |-> calls["load"]])
    /\ clicked' = c
    /\ pc' = "sidebar"
    /\ side_conn' = None
    /\ load_conn' = None
    /\ forecast_df' = None
    /\ market_df' = None
    /\ summary_df' = None
    /\ ret' = None
    /\ err' = NoErr
    /\ issued' = <<>>
    /\ calls' = [c2 \in Callers |-> 0]
    /\ attempts' = [c2 \in Callers |-> 0]
    /\ shown' = <<>>
    /\ failures' = <<>>
    /\ metrics' = None
    /\ bias_stats' = None
    /\ view' = None
    /\ UNCHANGED <<nextSession, openSessions>>

(* if st.button(...): st.rerun() -- the script stops and runs again *)
Rerun ==
    /\ pc = "button"
    /\ clicked
    /\ run < MaxRuns
    /\ StartRun(FALSE, "rerun")
    /\ UNCHANGED probeVars

ButtonNotClicked ==
    /\ pc = "button"
    /\ ~clicked
    /\ pc' = "load"
    /\ UNCHANGED <<run, clicked, nextSession, openSessions, side_conn, load_conn,
                   forecast_df, market_df, summary_df, ret, err, issued, calls,
                   attempts, shown, failures, metrics, bias_stats, view>>
    /\ UNCHANGED <<run_log, probeVars>>

----------------------------------------------------------------------------
(* load_data, lines 25-96 *)

LoadCreateConnection ==
    /\ pc = "load"
    /\ \E conn \in ConnValues :
          /\ create_connection("load", conn)
          /\ load_conn' = conn
    /\ pc' = "load_if"
    /\ UNCHANGED <<run, clicked, side_conn, forecast_df, market_df, summary_df,
                   ret, err, issued, metrics, bias_stats, view>>
    /\ UNCHANGED <<run_log, probeVars>>

(* if not conn: return None, None, None *)
LoadNoConnection ==
    /\ pc = "load_if"
    /\ load_conn = None
    /\ ret' = NoneTriple
    /\ pc' = "render"
    /\ UNCHANGED <<run, clicked, nextSession, openSessions, side_conn, load_conn,
                   forecast_df, market_df, summary_df, err, issued, calls,
                   attempts, shown, failures, metrics, bias_stats, view>>
    /\ UNCHANGED <<run_log, probeVars>>

(* positions of load_data at its six statements and at cursor.close() *)
StmtPc == <<"stmt1", "stmt2", "stmt3", "stmt4", "stmt5", "stmt6", "cursor_close">>

(* variant: a failing statement is skipped and the next one is issued *)
RaiseAndContinue(op, e) ==
    /\ err' = e
    /\ failures' = Append(failures, Failure(op, "load", e))
    /\ pc' = IF pc = "load_if" THEN "stmt1"
             ELSE IF pc = "cursor_close" THEN "except"
             ELSE StmtPc[1 + CHOOSE i \in 1..6 : StmtPc[i] = pc]

(* an operation inside the try block raises: control goes to the handler *)
Raise(op, e) ==
    /\ err' = e
    /\ failures' = Append(failures, Failure(op, "load", e))
    /\ pc' = "except"

(* cursor = conn.cursor() *)
LoadCursor ==
    /\ pc = "load_if"
    /\ load_conn # None
    /\ \/ /\ pc' = "stmt1"
          /\ UNCHANGED <<err, failures>>
       \/ \E e \in ErrorTexts : Raise("cursor", e)
    /\ UNCHANGED <<run, clicked, nextSession, openSessions, side_conn, load_conn,
                   forecast_df, market_df, summary_df, ret, issued, calls,
                   attempts, shown, metrics, bias_stats, view>>
    /\ UNCHANGED <<run_log, probeVars>>

(* the i-th statement, sent on the session of load_data's conn *)
Issued(i, ok) == [stmt |-> Order[i], ok |-> ok, session |-> load_conn[1]]

(* cursor.execute("USE ...") , the i-th statement of the sequence *)
execute(i) ==
    /\ pc = StmtPc[i]
    /\ \/ /\ issued' = Append(issued, Issued(i, TRUE))
          /\ pc' = StmtPc[i + 1]
          /\ UNCHANGED <<err, failures>>
       \/ /\ issued' = Append(issued, Issued(i, FALSE))
          /\ \E e \in ErrorTexts : Raise("context", e)
    /\ UNCHANGED <<run, clicked, nextSession, openSessions, side_conn, load_conn,
                   forecast_df, market_df, summary_df, ret, calls,
                   attempts, shown, metrics, bias_stats, view>>
    /\ UNCHANGED <<run_log, probeVars>>

UseDatabase == execute(1)
UseSchema == execute(2)
UseWarehouse == execute(3)

(* pd.read_sql(query, conn), the i-th statement; df is the frame returned *)
read_sql(i, df) ==
    /\ pc = StmtPc[i]
    /\ \/ /\ issued' = Append(issued, Issued(i, TRUE))
          /\ pc' = StmtPc[i + 1]
          /\ df # None
          /\ UNCHANGED <<err, failures>>
       \/ /\ issued' = Append(issued, Issued(i, FALSE))
          /\ df = None
          /\ \E e \in ErrorTexts : Raise("query", e)
    /\ UNCHANGED <<run, clicked, nextSession, openSessions, side_conn, load_conn,
                   ret, calls, attempts, shown, metrics, bias_stats, view>>
    /\ UNCHANGED <<run_log, probeVars>>

Optional(S) == {None} \cup {Some(x) : x \in S}

ReadForecast ==
    \E df \in Optional(LoadFrames) :
        /\ read_sql(4, df)
        /\ forecast_df' = df
        /\ UNCHANGED <<market_df, summary_df>>

ReadMarket ==
    \E df \in Optional(OtherFrames) :
        /\ read_sql(5, df)
        /\ market_df' = df
        /\ UNCHANGED <<forecast_df, summary_df>>

ReadSummary ==
    \E df \in Optional(OtherFrames) :
        /\ read_sql(6, df)
        /\ summary_df' = df
        /\ UNCHANGED <<forecast_df, market_df>>

(* cursor.close(); return forecast_df, market_df, summary_df *)
CursorClose ==
    /\ pc = "cursor_close"
    /\ \/ /\ ret' = <<forecast_df, market_df, summary_df>>
          /\ pc' = "finally"
          /\ UNCHANGED <<err, failures>>
       \/ /\ \E e \in ErrorTexts : Raise("cursor.close", e)
          /\ UNCHANGED ret
    /\ UNCHANGED <<run, clicked, nextSession, openSessions, side_conn, load_conn,
                   forecast_df, market_df, summary_df, issued, calls,
                   attempts, shown, metrics, bias_stats, view>>
    /\ UNCHANGED <<run_log, probeVars>>

(* the messages of the except block, lines 88-92 *)
except_messages(e) ==
    <<Msg("error", "load", "Data loading failed", e)>>
    \o (IF is_permission_error(e)
        THEN <<Msg("warning", "load", "Permission Issue Detected", NoErr),
               Msg("info", "load", "Check your Snowflake user grants", NoErr)>>
        ELSE <<>>)

(* variant: the handler returns the frames loaded so far *)
ExceptPartial ==
    /\ pc = "except"
    /\ shown' = shown \o except_messages(err)
    /\ ret' = <<forecast_df, market_df, summary_df>>
    /\ err' = NoErr
    /\ pc' = "finally"
    /\ UNCHANGED <<run, clicked, nextSession, openSessions, side_conn, load_conn,
                   forecast_df, market_df, summary_df, issued, calls,
                   attempts, failures, metrics, bias_stats, view>>
    /\ UNCHANGED <<run_log, probeVars>>

(* except Exception as e: ...; return None, None, None *)
Except ==
    /\ pc = "except"
    /\ shown' = shown \o except_messages(err)
    /\ ret' = NoneTriple
    /\ err' = NoErr
    /\ pc' = "finally"
    /\ UNCHANGED <<run, clicked, nextSession, openSessions, side_conn, load_conn,
                   forecast_df, market_df, summary_df, issued, calls,
                   attempts, failures, metrics, bias_stats, view>>
    /\ UNCHANGED <<run_log, probeVars>>

(* variant: no finally clause, the session is closed on the success path *)
FinallyCloseOnSuccess ==
    /\ pc = "finally"
    /\ IF load_conn # None /\ ret # NoneTriple
       THEN close(load_conn) ELSE UNCHANGED openSessions
    /\ forecast_df' = None
    /\ market_df' = None
    /\ summary_df' = None
    /\ pc' = "render"
    /\ UNCHANGED <<run, clicked, nextSession, side_conn, load_conn,
                   ret, err, issued, calls,
                   attempts, shown, failures, metrics, bias_stats, view>>
    /\ UNCHANGED <<run_log, probeVars>>

(* finally: if conn: conn.close() -- then load_data returns to main and   *)
(* its local frames are gone; main holds ret                              *)
Finally ==
    /\ pc = "finally"
    /\ IF load_conn # None THEN close(load_conn) ELSE UNCHANGED openSessions
    /\ forecast_df' = None
    /\ market_df' = None
    /\ summary_df' = None
    /\ pc' = "render"
    /\ UNCHANGED <<run, clicked, nextSession, side_conn, load_conn,
                   ret, err, issued, calls,
                   attempts, shown, failures, metrics, bias_stats, view>>
    /\ UNCHANGED <<run_log, probeVars>>

----------------------------------------------------------------------------
(* main, lines 142-233: the three page states and the metrics *)

(* variant: forecast_df['HIT'].count() *)
hit_count(df) == Cardinality({ i \in 1..Len(df) : df[i].HIT # None })

(* forecast_df['HIT'].sum(): True counts 1, False 0, NULL is skipped *)
RECURSIVE hit_sum(_)
hit_sum(df) ==
    IF df = <<>> THEN 0
    ELSE (IF Head(df).HIT = Some(TRUE) THEN 1 ELSE 0) + hit_sum(Tail(df))

(* lines 157-160; accuracy (hits / total_forecasts) * 100 is kept as the  *)
(* fraction num / den                                                     *)
calculate_metrics(df) ==
    LET total_forecasts == Len(df)
        hits == hit_sum(df)
    IN  [total_forecasts |-> total_forecasts,
         hits |-> hits,
         accuracy |-> IF total_forecasts > 0
                      THEN [num |-> hits * 100, den |-> total_forecasts]
                      ELSE [num |-> 0, den |-> 1],
         misses |-> total_forecasts - hits]

(* round(1) of the percentage n / d * 100, in tenths of a percent, ties   *)
(* to even                                                                *)
round1(n, d) ==
    LET q == (n * 1000) \div d
        r == (n * 1000) % d
    IN  IF 2 * r < d THEN q
        ELSE IF 2 * r > d THEN q + 1
        ELSE IF q % 2 = 0 THEN q ELSE q + 1

(* groupby('FORECAST_BIAS'): rows with a NULL key are dropped *)
group_keys(df) ==
    { df[i].FORECAST_BIAS[1] : i \in { j \in 1..Len(df) : df[j].FORECAST_BIAS # None } }

(* 'count' of HIT in the group: the non-NULL values *)
group_count(df, g) ==
    Cardinality({ i \in 1..Len(df) :
                    df[i].FORECAST_BIAS = Some(g) /\ df[i].HIT # None })

(* 'sum' of HIT in the group *)
group_sum(df, g) ==
    Cardinality({ i \in 1..Len(df) :
                    df[i].FORECAST_BIAS = Some(g) /\ df[i].HIT = Some(TRUE) })

(* lines 229-233: Total, Hits, Accuracy % (None is NaN, the result of 0/0) *)
calculate_bias_stats(df) ==
    [g \in group_keys(df) |->
        LET Total == group_count(df, g)
            Hits == group_sum(df, g)
        IN  [Total |-> Total,
             Hits |-> Hits,
             Accuracy |-> IF Total = 0 THEN None ELSE Some(round1(Hits, Total))]]

(* if forecast_df is None: ... return *)
RenderLoadFailed ==
    /\ pc = "render"
    /\ ret[1] = None
    /\ shown' = shown \o <<Msg("error", "main", "Failed to load data", NoErr),
                            Msg("info", "main", "Troubleshooting Steps", NoErr)>>
    /\ view' = Some("load_failed")
    /\ pc' = "done"
    /\ UNCHANGED <<run, clicked, nextSession, openSessions, side_conn, load_conn,
                   forecast_df, market_df, summary_df, ret, err, issued, calls,
                   attempts, failures, metrics, bias_stats>>
    /\ UNCHANGED <<run_log, probeVars>>

(* if len(forecast_df) == 0: ... return *)
RenderNoData ==
    /\ pc = "render"
    /\ ret[1] # None
    /\ Len(ret[1][1]) = 0
    /\ shown' = Append(shown, Msg("warning", "main", "No forecast data found", NoErr))
    /\ view' = Some("no_data")
    /\ pc' = "done"
    /\ UNCHANGED <<run, clicked, nextSession, openSessions, side_conn, load_conn,
                   forecast_df, market_df, summary_df, ret, err, issued, calls,
                   attempts, failures, metrics, bias_stats>>
    /\ UNCHANGED <<run_log, probeVars>>

(* lines 156-316: metrics, bias table, charts and tables *)
RenderDashboard ==
    /\ pc = "render"
    /\ ret[1] # None
    /\ Len(ret[1][1]) # 0
    /\ metrics' = Some(calculate_metrics(ret[1][1]))
    /\ bias_stats' = Some(calculate_bias_stats(ret[1][1]))
    /\ view' = Some("dashboard")
    /\ pc' = "done"
    /\ UNCHANGED <<run, clicked, nextSession, openSessions, side_conn, load_conn,
                   forecast_df, market_df, summary_df, ret, err, issued, calls,
                   attempts, shown, failures>>
    /\ UNCHANGED <<run_log, probeVars>>

(* the page is run again: a widget interaction or a reload; a press of    *)
(* the refresh button makes st.button return True in the new run          *)
NewRun ==
    /\ pc = "done"
    /\ run < MaxRuns
    /\ \E c \in (IF run + 2 <= MaxRuns THEN BOOLEAN ELSE {FALSE}) : StartRun(c, "done")
    /\ UNCHANGED probeVars

----------------------------------------------------------------------------
(* The page *)

ProbeIdle ==
    /\ probe_order = <<>>
    /\ accessible = {}
    /\ table_rows = <<>>
    /\ probe_pos = 0
    /\ probe_results = <<>>

Init ==
    /\ pc = "sidebar"
    /\ run = 1
    /\ clicked \in BOOLEAN
    /\ nextSession = 0
    /\ openSessions = {}
    /\ side_conn = None
    /\ load_conn = None
    /\ forecast_df = None
    /\ market_df = None
    /\ summary_df = None
    /\ ret = None
    /\ err = NoErr
    /\ issued = <<>>
    /\ calls = [c \in Callers |-> 0]
    /\ attempts = [c \in Callers |-> 0]
    /\ shown = <<>>
    /\ failures = <<>>
    /\ metrics = None
    /\ bias_stats = None
    /\ view = None
    /\ run_log = <<>>
    /\ ProbeIdle

Next ==
    \/ SidebarCreateConnection
    \/ SidebarConnected
    \/ SidebarNotConnected
    \/ StatusQuery
    \/ SidebarClose
    \/ Rerun
    \/ ButtonNotClicked
    \/ LoadCreateConnection
    \/ LoadNoConnection
    \/ LoadCursor
    \/ UseDatabase
    \/ UseSchema
    \/ UseWarehouse
    \/ ReadForecast
    \/ ReadMarket
    \/ ReadSummary
    \/ CursorClose
    \/ Except
    \/ Finally
    \/ RenderLoadFailed
    \/ RenderNoData
    \/ RenderDashboard
    \/ NewRun

Spec == Init /\ [][Next]_vars

----------------------------------------------------------------------------
(* The metrics computation on its own: main just after load_data has      *)
(* returned in a first run whose sidebar check succeeded, for every       *)
(* forecast frame up to MaxRows rows and for a load that failed to        *)
(* connect.                                                               *)

AllIssued == [i \in 1..Len(Order) |-> [stmt |-> Order[i], ok |-> TRUE, session |-> 2]]

SidebarShown ==
    <<Msg("success", "sidebar", "Snowflake Connected", NoErr),
      Msg("write", "sidebar", "context", NoErr)>>

InitMetrics ==
    /\ pc = "render"
    /\ run = 1
    /\ clicked = FALSE
    /\ openSessions = {}
    /\ side_conn = Some(1)
    /\ err = NoErr
    /\ calls = [c \in Callers |-> 1]
    /\ attempts = [c \in Callers |-> 1]
    /\ metrics = None
    /\ bias_stats = None
    /\ view = None
    /\ run_log = <<>>
    /\ ProbeIdle
    /\ \/ /\ nextSession = 2
          /\ load_conn = Some(2)
          /\ forecast_df = None
          /\ market_df = None
          /\ summary_df = None
          /\ ret \in {<<Some(f), Some(m), Some(s)>> :
                        f \in Frames, m \in OtherFrames, s \in OtherFrames}
          /\ issued = AllIssued
          /\ shown = SidebarShown
          /\ failures = <<>>
       \/ /\ nextSession = 1
          /\ load_conn = None
          /\ forecast_df = None
          /\ market_df = None
          /\ summary_df = None
          /\ ret = NoneTriple
          /\ issued = <<>>
          /\ \E e \in ErrorTexts :
                /\ shown = Append(SidebarShown, Msg("error", "load", "Connection failed", e))
                /\ failures = <<Failure("connect", "load", e)>>

NextMetrics ==
    \/ RenderLoadFailed
    \/ RenderNoData
    \/ RenderDashboard

SpecMetrics == InitMetrics /\ [][NextMetrics]_vars

----------------------------------------------------------------------------
(* Diagnostic probe mode (spec.md 4.2, mode 2): one row-count query per   *)
(* candidate table, each outcome recorded on its own.                     *)

Candidates == 1..MaxCandidates

ProbeOrders(S) ==
    { f \in [1..Cardinality(S) -> S] : \A x \in S : \E i \in DOMAIN f : f[i] = x }

(* row counts a table may have *)
RowCounts == {0, 100}

ProbeErrorText == <<"d","o","e","s"," ","n","o","t"," ","e","x","i","s","t">>

PageIdle ==
    /\ run = 1
    /\ clicked = FALSE
    /\ nextSession = 0
    /\ openSessions = {}
    /\ side_conn = None
    /\ load_conn = None
    /\ forecast_df = None
    /\ market_df = None
    /\ summary_df = None
    /\ ret = None
    /\ err = NoErr
    /\ issued = <<>>
    /\ calls = [c \in Callers |-> 0]
    /\ attempts = [c \in Callers |-> 0]
    /\ shown = <<>>
    /\ failures = <<>>
    /\ metrics = None
    /\ bias_stats = None
    /\ view = None
    /\ run_log = <<>>

InitProbe ==
    /\ pc = "probe"
    /\ PageIdle
    /\ probe_order \in ProbeOrders(Candidates)
    /\ accessible \in SUBSET Candidates
    /\ table_rows \in [Candidates -> RowCounts]
    /\ probe_pos = 0
    /\ probe_results = <<>>

(* the entry recorded for one probe of table t *)
probe_entry(t) ==
    IF t \in accessible
    THEN [table |-> t, status |-> "success", rows |-> Some(table_rows[t]), error |-> NoErr]
    ELSE [table |-> t, status |-> "failure", rows |-> None, error |-> ProbeErrorText]

(* variant: the first failed probe ends the loop *)
probe_abort(pos, entry) ==
    IF entry.status = "failure" THEN MaxCandidates ELSE pos + 1

(* position of the probe loop after the probe at position pos *)
probe_advance(pos, entry) == pos + 1

ProbeSucceeds ==
    /\ pc = "probe"
    /\ probe_pos < Len(probe_order)
    /\ probe_order[probe_pos + 1] \in accessible
    /\ probe_results' = Append(probe_results, probe_entry(probe_order[probe_pos + 1]))
    /\ probe_pos' = probe_advance(probe_pos, probe_entry(probe_order[probe_pos + 1]))
    /\ UNCHANGED <<pc, probe_order, accessible, table_rows>>
    /\ UNCHANGED <<run, clicked, nextSession, openSessions, side_conn, load_conn,
                   forecast_df, market_df, summary_df, ret, err, issued, calls,
                   attempts, shown, failures, metrics, bias_stats, view, run_log>>

ProbeFails ==
    /\ pc = "probe"
    /\ probe_pos < Len(probe_order)
    /\ probe_order[probe_pos + 1] \notin accessible
    /\ probe_results' = Append(probe_results, probe_entry(probe_order[probe_pos + 1]))
    /\ probe_pos' = probe_advance(probe_pos, probe_entry(probe_order[probe_pos + 1]))
    /\ UNCHANGED <<pc, probe_order, accessible, table_rows>>
    /\ UNCHANGED <<run, clicked, nextSession, openSessions, side_conn, load_conn,
                   forecast_df, market_df, summary_df, ret, err, issued, calls,
                   attempts, shown, failures, metrics, bias_stats, view, run_log>>

ProbeDone ==
    /\ pc = "probe"
    /\ probe_pos >= Len(probe_order)
    /\ pc' = "probe_done"
    /\ UNCHANGED <<probe_order, accessible, table_rows, probe_pos, probe_results>>
    /\ UNCHANGED <<run, clicked, nextSession, openSessions, side_conn, load_conn,
                   forecast_df, market_df, summary_df, ret, err, issued, calls,
                   attempts, shown, failures, metrics, bias_stats, view, run_log>>

NextProbe ==
    \/ ProbeSucceeds
    \/ ProbeFails
    \/ ProbeDone

SpecProbe == InitProbe /\ [][NextProbe]_vars

----------------------------------------------------------------------------
(* Properties *)

LoadFailures == { i \in DOMAIN failures : failures[i].where = "load" }

Displayed(kind, where, label, text) ==
    \E j \in DOMAIN shown : shown[j] = Msg(kind, where, label, text)

HintShown ==
    \E j \in DOMAIN shown :
        shown[j].kind = "warning" /\ shown[j].label = "Permission Issue Detected"

(* C1: load_data is all-or-nothing: whenever an operation of the load     *)
(* failed, the value returned is (None, None, None), also when earlier    *)
(* queries had succeeded; a triple with any frame in it is returned only  *)
(* after all three USE statements and all three SELECTs succeeded, and    *)
(* then it holds all three frames.                                        *)
C1_AllOrNothing ==
    ret # None =>
        /\ (LoadFailures # {} => ret = NoneTriple)
        /\ (ret # NoneTriple =>
              /\ Len(issued) = Len(Order)
              /\ \A i \in DOMAIN issued : issued[i].ok
              /\ \A k \in 1..3 : ret[k] # None)

C1_Witness ==
    /\ pc = "finally"
    /\ Len(issued) = 5
    /\ ~issued[5].ok
    /\ forecast_df # None
    /\ ret = NoneTriple

(* C2: every session opened is closed before the path that opened it      *)
(* finishes: no session is open once the sidebar check is over, once      *)
(* load_data has returned, or when the run has ended.                     *)
C2_SessionsClosed ==
    pc \in {"sidebar", "button", "load", "render", "done"} => openSessions = {}

C2_Witness ==
    /\ pc = "done"
    /\ side_conn # None
    /\ load_conn # None
    /\ \E i \in DOMAIN failures : failures[i].op = "status"
    /\ \E i \in DOMAIN failures : failures[i].op = "query"
    /\ openSessions = {}

(* C3: every failure of a warehouse operation is caught and converted     *)
(* into a displayed message: at the end of a run no exception is in       *)
(* flight and each failure that occurred has an error message carrying    *)
(* its text, displayed where it occurred.                                 *)
C3_EveryFailureDisplayed ==
    pc = "done" =>
        /\ err = NoErr
        /\ \A i \in DOMAIN failures :
              \E j \in DOMAIN shown :
                  /\ shown[j].kind = "error"
                  /\ shown[j].where = failures[i].where
                  /\ shown[j].text = failures[i].text

NeedleUpper == <<"N","O","T"," ","A","U","T","H","O","R","I","Z","E","D">>

(* the text holds "not authorized" in some mix of upper and lower case *)
AnyCaseNotAuthorized(text) ==
    \E k \in 0..(Len(text) - Len(Needle)) :
        \A i \in 1..Len(Needle) : text[k + i] \in {Needle[i], NeedleUpper[i]}

(* C4 as stated: when the bulk load failed, an error message with the     *)
(* error text is displayed, and the permission hint is displayed exactly  *)
(* when the text holds "not authorized" in any letter case, whichever     *)
(* step failed, the connection included.                                  *)
C4_HintForEveryStep ==
    (ret = NoneTriple) =>
        \A i \in LoadFailures :
            /\ \E j \in DOMAIN shown :
                  /\ shown[j].kind = "error"
                  /\ shown[j].where = "load"
                  /\ shown[j].text = failures[i].text
            /\ HintShown <=> AnyCaseNotAuthorized(failures[i].text)

(* C4 amended: when the bulk load failed, an error message with the error *)
(* text is displayed; for a failure inside the try block of load_data     *)
(* the permission hint is displayed exactly when the text holds           *)
(* "not authorized" in any letter case; for a failed connection           *)
(* "Connection failed" is displayed and the hint never is.                *)
C4_HintInsideTry ==
    (ret = NoneTriple) =>
        /\ LoadFailures # {}
        /\ \A i \in LoadFailures :
              IF failures[i].op = "connect"
              THEN /\ Displayed("error", "load", "Connection failed", failures[i].text)
                   /\ ~HintShown
              ELSE /\ Displayed("error", "load", "Data loading failed", failures[i].text)
                   /\ HintShown <=> AnyCaseNotAuthorized(failures[i].text)

C4_Witness ==
    /\ pc = "render"
    /\ ret = NoneTriple
    /\ \E i \in LoadFailures :
          /\ failures[i].op = "query"
          /\ failures[i].text # NeedleUpper
          /\ AnyCaseNotAuthorized(failures[i].text)
          /\ failures[i].text[3] = "N"
    /\ HintShown

TrueHits(df) == Cardinality({ i \in 1..Len(df) : df[i].HIT = Some(TRUE) })

(* C5: for a loaded frame of N rows with H true hit flags: if N > 0 the   *)
(* dashboard is shown with accuracy = H / N * 100, hits = H and           *)
(* misses = N - H; if N = 0 the "no data found" state is shown and no     *)
(* metrics are computed; the "load failed" state is shown exactly when    *)
(* load_data returned (None, None, None), with its own message.           *)
C5_Accuracy ==
    pc = "done" =>
        IF ret[1] = None
        THEN /\ view = Some("load_failed")
             /\ metrics = None
             /\ Displayed("error", "main", "Failed to load data", NoErr)
             /\ ~Displayed("warning", "main", "No forecast data found", NoErr)
        ELSE IF Len(ret[1][1]) = 0
        THEN /\ view = Some("no_data")
             /\ metrics = None
             /\ Displayed("warning", "main", "No forecast data found", NoErr)
             /\ ~Displayed("error", "main", "Failed to load data", NoErr)
        ELSE /\ view = Some("dashboard")
             /\ metrics # None
             /\ metrics[1].total_forecasts = Len(ret[1][1])
             /\ metrics[1].hits = TrueHits(ret[1][1])
             /\ metrics[1].misses = Len(ret[1][1]) - TrueHits(ret[1][1])
             /\ metrics[1].accuracy.num * Len(ret[1][1])
                  = TrueHits(ret[1][1]) * 100 * metrics[1].accuracy.den

C5_Witness ==
    /\ pc = "done"
    /\ view = Some("dashboard")
    /\ Len(ret[1][1]) = 3
    /\ TrueHits(ret[1][1]) = 1
    /\ \E i \in 1..3 : ret[1][1][i].HIT = None
    /\ metrics[1].accuracy = [num |-> 100, den |-> 3]

(* the sum of f[g] over the g in S *)
RECURSIVE SumOver(_, _)
SumOver(f, S) ==
    IF S = {} THEN 0
    ELSE LET g == CHOOSE x \in S : TRUE
         IN  f[g] + SumOver(f, S \ {g})

GroupTotals(stats) == [g \in DOMAIN stats |-> stats[g].Total]
GroupHits(stats) == [g \in DOMAIN stats |-> stats[g].Hits]
GroupWeighted(stats) ==
    [g \in DOMAIN stats |->
        IF stats[g].Accuracy = None THEN 0 ELSE stats[g].Accuracy[1] * stats[g].Total]

Abs(x) == IF x < 0 THEN -x ELSE x

(* C6: for a non-empty frame the group Totals sum to N, the group Hits    *)
(* sum to H, and the group accuracies weighted by Total and divided by N  *)
(* are within 0.1 of the overall accuracy H / N * 100 (in tenths of a     *)
(* percent: the weighted sum differs from 1000 * H by at most N).         *)
C6_GroupsSumToOverall ==
    view = Some("dashboard") =>
        LET df == ret[1][1]
            stats == bias_stats[1]
        IN  /\ SumOver(GroupTotals(stats), DOMAIN stats) = Len(df)
            /\ SumOver(GroupHits(stats), DOMAIN stats) = TrueHits(df)
            /\ Abs(SumOver(GroupWeighted(stats), DOMAIN stats) - 1000 * TrueHits(df))
                 <= Len(df)

(* C7: nothing is retried: every create_connection call makes exactly one *)
(* connect attempt and returns an open session or None; no statement is   *)
(* executed twice in a load; when the connect of load_data fails it       *)
(* returns (None, None, None) with no statement executed and one attempt. *)
C7_NoRetry ==
    /\ \A c \in Callers : attempts[c] = calls[c] /\ calls[c] <= 1
    /\ (pc = "sidebar_if" /\ side_conn # None) => side_conn[1] \in openSessions
    /\ (pc = "load_if" /\ load_conn # None) => load_conn[1] \in openSessions
    /\ \A i, j \in DOMAIN issued : issued[i].stmt = issued[j].stmt => i = j
    /\ (pc \in {"render", "done"} /\ load_conn = None) =>
          /\ ret = NoneTriple
          /\ issued = <<>>
          /\ attempts["load"] = 1

C7_Witness ==
    /\ pc = "render"
    /\ side_conn # None
    /\ load_conn = None
    /\ attempts["load"] = 1
    /\ \E i \in LoadFailures : failures[i].op = "connect"

(* C8: the probe records exactly one entry per candidate table: success   *)
(* with the row count for an accessible table, failure with an error      *)
(* message for any other; a failed probe does not stop the later ones;    *)
(* the outcome of each table is the same in every probe order.            *)
C8_ProbeResults ==
    /\ Len(probe_results) = probe_pos
    /\ pc = "probe_done" =>
          /\ Len(probe_results) = MaxCandidates
          /\ \A t \in Candidates :
                /\ Cardinality({ i \in DOMAIN probe_results : probe_results[i].table = t }) = 1
                /\ \A i \in DOMAIN probe_results :
                      probe_results[i].table = t =>
                          IF t \in accessible
                          THEN /\ probe_results[i].status = "success"
                               /\ probe_results[i].rows = Some(table_rows[t])
                          ELSE /\ probe_results[i].status = "failure"
                               /\ probe_results[i].rows = None
                               /\ probe_results[i].error # NoErr

C8_Witness ==
    /\ pc = "probe_done"
    /\ Cardinality(accessible) = 2
    /\ probe_results[1].status = "failure"
    /\ Cardinality({ i \in DOMAIN probe_results : probe_results[i].status = "success" }) = 2
    /\ Cardinality({ i \in DOMAIN probe_results : probe_results[i].status = "failure" })
         = MaxCandidates - 2

ExpectedOrder ==
    <<"USE DATABASE", "USE SCHEMA", "USE WAREHOUSE",
      "SELECT FORECAST_POSTMORTEM", "SELECT DAILY_MARKET_DATA",
      "SELECT FORECAST_SUMMARY">>

(* C9: the statements of one load are issued on the one session of        *)
(* load_data, open at that time, in the order USE DATABASE, USE SCHEMA,   *)
(* USE WAREHOUSE, forecast, market, summary SELECT; every statement       *)
(* before the last issued one succeeded, so no SELECT precedes a          *)
(* successful context and nothing follows the first failure.              *)
C9_StatementOrder ==
    /\ Len(issued) <= Len(ExpectedOrder)
    /\ \A i \in DOMAIN issued :
          /\ issued[i].stmt = ExpectedOrder[i]
          /\ issued[i].session = load_conn[1]
          /\ i < Len(issued) => issued[i].ok
    /\ (issued # <<>> /\ pc \notin {"render", "done"} /\ pc # "finally")
          => load_conn[1] \in openSessions
    /\ (pc \in {"render", "done"} /\ \E i \in LoadFailures : failures[i].op = "context")
          => (Len(issued) <= 3 /\ ~issued[Len(issued)].ok)

C9_Witness ==
    /\ pc = "render"
    /\ Len(issued) = 2
    /\ ~issued[2].ok

SessionDiscipline ==
    /\ Cardinality(openSessions) <= 1
    /\ (side_conn # None /\ load_conn # None) => side_conn[1] # load_conn[1]
    /\ (pc \in {"load", "load_if", "cursor_close", "except", "finally"}
          \/ \E i \in 1..6 : pc = StmtPc[i])
          => (side_conn # None => side_conn[1] \notin openSessions)
    /\ pc \in {"render", "done"} => (calls["load"] = 1 /\ attempts["load"] = 1)

(* C10 as stated: in every page run the sidebar check and the data load   *)
(* use different sessions, the sidebar session is closed before           *)
(* load_data connects, at most one session is open at any time, and the   *)
(* data load is attempted (one create_connection call of its own) in      *)
(* every run, those started by the refresh action included.               *)
C10_LoadInEveryRun ==
    /\ SessionDiscipline
    /\ \A i \in DOMAIN run_log : run_log[i].load_calls = 1

(* C10 amended: as above, except that a run in which the refresh button   *)
(* reports a press stops at st.rerun() after the sidebar check and        *)
(* attempts no data load; every other run attempts it with a connection   *)
(* of its own, whether the sidebar check connected or not.                *)
C10_IndependentSessions ==
    /\ SessionDiscipline
    /\ \A i \in DOMAIN run_log :
          IF run_log[i].how = "rerun"
          THEN run_log[i].clicked /\ run_log[i].load_calls = 0
          ELSE ~run_log[i].clicked /\ run_log[i].load_calls = 1

C10_Witness ==
    /\ run = 2
    /\ run_log[1].how = "rerun"
    /\ pc = "done"
    /\ side_conn = None
    /\ load_conn # None
    /\ view = Some("dashboard")

====
